---------------------------- MODULE Spec2Model ----------------------------
(***************************************************************************)
(* Djit+ vector-clock race detector of uchan-nos/program-analysis.         *)
(*                                                                         *)
(* Two implementations of the analyzer live in the repository:            *)
(*   - the array variant, class Analyzer<NThread> over FixedVectorClock    *)
(*     (src/pintools/Overflow/Overflow.cpp, lines 227-385), driven by the  *)
(*     model in src/djit-plus-vc/main.cpp;                                 *)
(*   - the sparse-map variant, the Pin analysis routines over VC<int> and  *)
(*     ThreadVCMap<int> (src/pintools/VectorClock/README.md, lines         *)
(*     19-595).                                                            *)
(* The variable impl says which of the two a behaviour runs.  One step of  *)
(* the model is one event delivered to the analyzer.                       *)
(***************************************************************************)
EXTENDS Integers, Sequences, FiniteSets

\* ------------------------------------------------------------------ bounds
\* const int kNumThread = 2 (main.cpp line 49): the template parameter
\* NThread of Analyzer; the sparse variant is run with the same thread ids.
kNumThread == 2
NThread == kNumThread
\* Largest value a thread's own clock component may reach (the increments
\* are disabled beyond it).
MaxClock == 2
\* Longest enumeration Register may build (it appends without limit).
MaxRegister == 2
\* Most Forks a behaviour that follows the assigned ids may deliver.
MaxFork == 2

Threads == 0 .. (NThread - 1)
\* Variable x and lock m of main.cpp (lines 66-67); watch_vars / watch_locks
\* of the Pin tool (README.md lines 561-563).
Variables == {"x"}
Locks == {"m"}
\* std::thread objects of the traced program (part_000 line 30).
Handles == {"t1"}
\* An address and a mutex of the traced program outside watch_vars and
\* watch_locks.
OtherVariables == {"y"}
OtherLocks == {"n"}
\* static const int kCount of the demo program, and its threads t1, t2.
kCount == 3
Workers == {1, 2}

VARIABLES
  impl,          \* "array" or "sparse": which implementation runs
  \* ---- array variant: fields of Analyzer<NThread>
  thread_vc_,    \* std::array<FixedVectorClock, NThread>
  read_vc_,      \* std::map<Variable, FixedVectorClock>
  write_vc_,     \* std::map<Variable, FixedVectorClock>
  lock_vc_,      \* std::map<Lock, FixedVectorClock>
  variables_,    \* std::vector<Variable>, returned by GetVariables
  locks_,        \* std::vector<Lock>, returned by GetLocks
  on_read_violated_,   \* ViolationHandler: TRUE when a callable is set
  on_write_violated_,  \* ViolationHandler: TRUE when a callable is set
  handler_seen,  \* the analyzer a handler was last invoked with, or NoCall
  \* ---- sparse variant: globals of the Pin tool
  thread_vc,     \* ThreadVCMap<int>
  read_vc,       \* map<ADDRINT, VC<int>>
  write_vc,      \* map<ADDRINT, VC<int>>
  lock_vc,       \* map<ADDRINT, VC<int>>
  thread_to_id,  \* map<void*, THREADID>
  last_id,       \* static THREADID last_id of Fork
  lock,          \* PIN_LOCK lock: its owner, or NoThread
  vc_lock,       \* PIN_LOCK vc_lock: its owner, or NoThread
  pc,            \* pc[t]: where thread t stands inside an analysis routine
  mtx,           \* mtx[m]: the thread owning the traced std::mutex m, or NoThread
  \* ---- observation of the event stream (history variables)
  track,         \* the bookkeeping a behaviour keeps: "prev", "hb", "locks", "scen"
  last,          \* the event delivered by the latest step and its verdict
  prev,          \* the event delivered before it
  hb,            \* hb[t]: accesses that happen-before thread t's next event
  hbL,           \* hbL[m]: accesses that happen-before some release of m
  forked,        \* handle -> child id, for handles bound by a Fork
  held,          \* held[m]: the thread between Acquire and Release of m
  disc,          \* locks whose acquire/release pairs never overlapped
  guarded,       \* guarded[x]: locks held at every access of x so far
  seen,          \* kinds of synchronisation events delivered so far
  fk,            \* the latest Fork and the writes delivered since
  rep,           \* rep[t]: variables whose race t's writes have reported
  sc,            \* sc[n]: progress along scenario n and the verdicts so far
  ids,           \* the Forks and Joins so far with the ids they used, in order
  sviol,         \* the sparse variant's verdict of the latest event, where both run
  \* ---- the traced demo program
  prog           \* x, m, each worker's position in f with its i and t, main's position

handlerVars == <<on_read_violated_, on_write_violated_, handler_seen>>
arrayVars == <<thread_vc_, read_vc_, write_vc_, lock_vc_, variables_, locks_, handlerVars>>
sparseVars == <<thread_vc, read_vc, write_vc, lock_vc, thread_to_id, last_id>>
concVars == <<lock, vc_lock, pc, mtx>>
obsVars == <<track, last, prev, hb, hbL, forked, held, disc, guarded, seen, fk, rep, sc, ids, sviol>>
vars == <<impl, arrayVars, sparseVars, concVars, obsVars, prog>>

\* ------------------------------------------------- array variant: clocks
\* FixedVectorClock<N>: std::array<int, N> clocks{} (all zero).
FixedVectorClock == [i \in Threads |-> 0]

\* operator|= : pointwise maximum.
FixedOr(lhs, rhs) ==
  [i \in Threads |-> IF lhs[i] >= rhs[i] THEN lhs[i] ELSE rhs[i]]

\* operator<= : false at the first component with lhs[i] > rhs[i].
FixedLe(lhs, rhs) == \A i \in Threads : ~(lhs[i] > rhs[i])

\* operator> : !(lhs <= rhs).
FixedGt(lhs, rhs) == ~FixedLe(lhs, rhs)

\* std::map::operator[] on read_vc_, write_vc_, lock_vc_: the entry, created
\* zero when absent.
MapAt(mp, k) == IF k \in DOMAIN mp THEN mp[k] ELSE FixedVectorClock

\* mp with mp[k] = v (the entry created when absent).
MapPut(mp, k, v) == [j \in DOMAIN mp \cup {k} |-> IF j = k THEN v ELSE mp[j]]

\* Analyzer() that leaves every thread clock zero.
AnalyzerCtor_Zero == [i \in Threads |-> FixedVectorClock]

\* Analyzer(): thread_vc_[i][i] = 1 for every thread.
AnalyzerCtor == [i \in Threads |-> [j \in Threads |-> IF i = j THEN 1 ELSE 0]]


\* ------------------------------------------------ array variant: operations
\* Analyzer::Read that compares write_vc_[x] with a fresh clock instead of
\* thread_vc_[t].
AnalyzerReadEffect_FreshClock(t, x) ==
  [R |-> MapPut(read_vc_, x,
                [MapAt(read_vc_, x) EXCEPT ![t] = thread_vc_[t][t]]),
   W |-> MapPut(write_vc_, x, MapAt(write_vc_, x)),
   viol |-> FixedGt(MapAt(write_vc_, x), FixedVectorClock)]

\* Analyzer::Read that copies the whole of thread_vc_[t] into read_vc_[x].
AnalyzerReadEffect_WholeClock(t, x) ==
  [R |-> MapPut(read_vc_, x, thread_vc_[t]),
   W |-> MapPut(write_vc_, x, MapAt(write_vc_, x)),
   viol |-> FixedGt(MapAt(write_vc_, x), thread_vc_[t])]

\* Analyzer::Read(t, x): read_vc_[x][t] = thread_vc_[t][t]; then the handler
\* branch is entered when write_vc_[x] > thread_vc_[t].  The operator[] of
\* the two maps creates the entries of x.
AnalyzerReadEffect(t, x) ==
  [R |-> MapPut(read_vc_, x,
                [MapAt(read_vc_, x) EXCEPT ![t] = thread_vc_[t][t]]),
   W |-> MapPut(write_vc_, x, MapAt(write_vc_, x)),
   viol |-> FixedGt(MapAt(write_vc_, x), thread_vc_[t])]

\* Analyzer::Write that does not consult read_vc_[x].
AnalyzerWriteEffect_NoReadCheck(t, x) ==
  LET w == [MapAt(write_vc_, x) EXCEPT ![t] = thread_vc_[t][t]]
  IN  [W |-> MapPut(write_vc_, x, w),
       R |-> read_vc_,
       viol |-> FixedGt(w, thread_vc_[t])]

\* Analyzer::Write that leaves write_vc_ as it was when it reports to a
\* handler.
AnalyzerWriteEffect_SkipOnReport(t, x) ==
  LET w == [MapAt(write_vc_, x) EXCEPT ![t] = thread_vc_[t][t]]
      first == FixedGt(w, thread_vc_[t])
      viol == first \/ FixedGt(MapAt(read_vc_, x), thread_vc_[t])
  IN  [W |-> IF viol /\ on_write_violated_ THEN write_vc_ ELSE MapPut(write_vc_, x, w),
       R |-> IF first THEN read_vc_ ELSE MapPut(read_vc_, x, MapAt(read_vc_, x)),
       viol |-> viol]

\* Analyzer::Write(t, x): write_vc_[x][t] = thread_vc_[t][t]; then the
\* handler branch is entered when write_vc_[x] > thread_vc_[t] ||
\* read_vc_[x] > thread_vc_[t] (read_vc_[x] is only touched when the first
\* operand is false).
AnalyzerWriteEffect(t, x) ==
  LET w == [MapAt(write_vc_, x) EXCEPT ![t] = thread_vc_[t][t]]
      first == FixedGt(w, thread_vc_[t])
  IN  [W |-> MapPut(write_vc_, x, w),
       R |-> IF first THEN read_vc_ ELSE MapPut(read_vc_, x, MapAt(read_vc_, x)),
       viol |-> first \/ FixedGt(MapAt(read_vc_, x), thread_vc_[t])]

\* Analyzer::Acquire that does not merge lock_vc_[m] into thread_vc_[t].
AnalyzerAcquireEffect_NoMerge(t, m) ==
  [C |-> thread_vc_,
   L |-> MapPut(lock_vc_, m, MapAt(lock_vc_, m))]

\* Analyzer::Acquire(t, m): thread_vc_[t] |= lock_vc_[m].
AnalyzerAcquireEffect(t, m) ==
  [C |-> [thread_vc_ EXCEPT ![t] = FixedOr(@, MapAt(lock_vc_, m))],
   L |-> MapPut(lock_vc_, m, MapAt(lock_vc_, m))]

\* Analyzer::Release that copies without incrementing thread_vc_[t][t].
AnalyzerReleaseEffect_NoIncrement(t, m) ==
  [C |-> thread_vc_, L |-> MapPut(lock_vc_, m, thread_vc_[t])]

\* Analyzer::Release(t, m): ++thread_vc_[t][t]; lock_vc_[m] = thread_vc_[t].
AnalyzerReleaseEffect(t, m) ==
  LET c == [thread_vc_ EXCEPT ![t][t] = @ + 1]
  IN  [C |-> c, L |-> MapPut(lock_vc_, m, c[t])]

\* ----------------------------------------------------- event observation
NoThread == 0 - 1
\* A thread outside every analysis routine.
Idle == [at |-> "idle", o |-> "-", w |-> FALSE]
\* A thread inside a routine, at step at, with the routine's argument o.
At(at, o, w) == [at |-> at, o |-> o, w |-> w]
SyncOps == {"acq", "rel", "fork", "join"}
Event(op, t, o, viol, u) == [op |-> op, t |-> t, o |-> o, viol |-> viol, u |-> u]
Access(op, t, x) == <<op, t, x>>
NoFork == [on |-> FALSE, p |-> 0, c |-> 0, w |-> [x \in Variables |-> <<>>]]
\* Event sequences followed from the initial state:
\*   S1  rd(0,x) rd(1,x) wr(0,x) wr(1,x) of main.cpp lines 105-108, then
\*       wr(0,x) once more;
\*   S2  the PROTECT_BY_LOCK model of main.cpp lines 96-103;
\*   S3  thread 0 forks thread 1, which writes x; thread 0 joins it and
\*       writes x.
Scenarios ==
  [S1 |-> << <<"rd", 0, "x">>, <<"rd", 1, "x">>, <<"wr", 0, "x">>,
             <<"wr", 1, "x">>, <<"wr", 0, "x">> >>,
   S2 |-> << <<"acq", 0, "m">>, <<"rd", 0, "x">>, <<"wr", 0, "x">>,
             <<"rel", 0, "m">>, <<"acq", 1, "m">>, <<"rd", 1, "x">>,
             <<"wr", 1, "x">>, <<"rel", 1, "m">> >>,
   S3 |-> << <<"fork", 0, "t1">>, <<"wr", 1, "x">>, <<"join", 0, "t1">>,
             <<"wr", 0, "x">> >>]

\* Happens-before bookkeeping of event e: program order, release -> acquire
\* on the same lock, fork -> child, child -> join.
ObserveHB(e) ==
  /\ hb' =
       CASE e.op \in {"rd", "wr"} ->
              [s \in Threads |->
                 IF s = e.t THEN hb[s] \cup {Access(e.op, e.t, e.o)}
                 ELSE hb[s] \ {Access(e.op, e.t, e.o)}]
         [] e.op = "acq" -> [hb EXCEPT ![e.t] = @ \cup hbL[e.o]]
         [] e.op = "fork" -> [hb EXCEPT ![e.u] = @ \cup hb[e.t]]
         [] e.op = "join" /\ e.o \in DOMAIN forked ->
              [hb EXCEPT ![e.t] = @ \cup hb[forked[e.o]]]
         [] OTHER -> hb
  /\ hbL' =
       CASE e.op \in {"rd", "wr"} ->
              [m \in Locks |-> hbL[m] \ {Access(e.op, e.t, e.o)}]
         [] e.op = "rel" -> [hbL EXCEPT ![e.o] = @ \cup hb[e.t]]
         [] OTHER -> hbL
  /\ forked' =
       IF e.op = "fork"
       THEN [h \in DOMAIN forked \cup {e.o} |-> IF h = e.o THEN e.u ELSE forked[h]]
       ELSE forked
  /\ seen' = IF e.op \in SyncOps THEN seen \cup {e.op} ELSE seen

\* Lock discipline bookkeeping of event e.
ObserveLocks(e) ==
  /\ held' =
       CASE e.op = "acq" /\ held[e.o] = NoThread -> [held EXCEPT ![e.o] = e.t]
         [] e.op = "rel" /\ held[e.o] = e.t -> [held EXCEPT ![e.o] = NoThread]
         [] OTHER -> held
  /\ disc' =
       CASE e.op = "acq" /\ held[e.o] # NoThread -> disc \ {e.o}
         [] e.op = "rel" /\ held[e.o] # e.t -> disc \ {e.o}
         [] OTHER -> disc
  /\ guarded' =
       IF e.op \in {"rd", "wr"}
       THEN [guarded EXCEPT ![e.o] = @ \cap {m \in Locks : held[m] = e.t}]
       ELSE guarded

\* Bookkeeping of the latest Fork and of the reported writes.
ObserveForks(e) ==
  /\ fk' =
       CASE e.op = "fork" -> [NoFork EXCEPT !.on = TRUE, !.p = e.t, !.c = e.u]
         [] e.op \in {"acq", "rel", "join"} -> NoFork
         [] e.op = "wr" /\ fk.on /\ e.t \in {fk.p, fk.c} /\ Len(fk.w[e.o]) < 3 ->
              [fk EXCEPT !.w[e.o] = Append(@, e.t)]
         [] OTHER -> fk
  /\ rep' =
       CASE e.op = "wr" /\ e.viol -> [rep EXCEPT ![e.t] = @ \cup {e.o}]
         [] e.op \in {"acq", "join"} -> [rep EXCEPT ![e.t] = {}]
         [] OTHER -> rep

\* Progress of event e along each scenario, with the verdict of each event.
ObserveScenario(e) ==
  /\ sc' =
       [n \in DOMAIN Scenarios |->
          IF /\ sc[n].on
             /\ Len(sc[n].v) < Len(Scenarios[n])
             /\ <<e.op, e.t, e.o>> = Scenarios[n][Len(sc[n].v) + 1]
          THEN [sc[n] EXCEPT !.v = Append(@, e.viol)]
          ELSE [on |-> FALSE, v |-> <<>>]]

\* Bookkeeping of event e, sv being the sparse variant's verdict of it.
ObserveBoth(e, sv) ==
  /\ last' = e
  /\ track' = track
  /\ IF "hb" \in track THEN ObserveHB(e) ELSE UNCHANGED <<hb, hbL, forked, seen>>
  /\ IF "locks" \in track THEN ObserveLocks(e) ELSE UNCHANGED <<held, disc, guarded>>
  /\ IF "scen" \in track THEN ObserveForks(e) ELSE UNCHANGED <<fk, rep>>
  /\ IF track # {} THEN ObserveScenario(e) ELSE UNCHANGED sc
  /\ prev' = IF "prev" \in track THEN last ELSE prev
  /\ ids' = IF "ids" \in track /\ e.op \in {"fork", "join"}
            THEN Append(ids, <<e.op, e.u>>) ELSE ids
  /\ sviol' = IF "both" \in track THEN sv ELSE sviol

\* Bookkeeping of event e of the running variant.
Observe(e) == ObserveBoth(e, e.viol)

InitObs(tr) ==
  /\ track = tr
  /\ last = Event("init", 0, "-", FALSE, 0)
  /\ prev = Event("init", 0, "-", FALSE, 0)
  /\ hb = [t \in Threads |-> {}]
  /\ hbL = [m \in Locks |-> {}]
  /\ forked = <<>>
  /\ held = [m \in Locks |-> NoThread]
  /\ disc = Locks
  /\ guarded = [x \in Variables |-> Locks]
  /\ seen = {}
  /\ fk = NoFork
  /\ rep = [t \in Threads |-> {}]
  /\ sc = [n \in DOMAIN Scenarios |-> [on |-> TRUE, v |-> <<>>]]
  /\ ids = <<>>
  /\ sviol = FALSE

\* ---------------------------------------------------- array variant: steps
\* No violation handler invoked so far.
NoCall == [on |-> FALSE]
\* The analyzer (const Analyzer&) a violation handler is invoked with.
HandlerCall(c, r, w, l) == [on |-> TRUE, C |-> c, R |-> r, W |-> w, L |-> l]

AnalyzerRead(t, x) ==
  /\ impl = "array"
  /\ LET r == AnalyzerReadEffect(t, x)
     IN  /\ read_vc_' = r.R
         /\ write_vc_' = r.W
         /\ Observe(Event("rd", t, x, r.viol, t))
         /\ handler_seen' = IF r.viol /\ on_read_violated_
                            THEN HandlerCall(thread_vc_, r.R, r.W, lock_vc_)
                            ELSE handler_seen
  /\ UNCHANGED <<impl, prog, thread_vc_, lock_vc_, variables_, locks_, sparseVars, concVars>>
  /\ UNCHANGED <<on_read_violated_, on_write_violated_>>

AnalyzerWrite(t, x) ==
  /\ impl = "array"
  /\ LET r == AnalyzerWriteEffect(t, x)
     IN  /\ read_vc_' = r.R
         /\ write_vc_' = r.W
         /\ Observe(Event("wr", t, x, r.viol, t))
         /\ handler_seen' = IF r.viol /\ on_write_violated_
                            THEN HandlerCall(thread_vc_, r.R, r.W, lock_vc_)
                            ELSE handler_seen
  /\ UNCHANGED <<impl, prog, thread_vc_, lock_vc_, variables_, locks_, sparseVars, concVars>>
  /\ UNCHANGED <<on_read_violated_, on_write_violated_>>

AnalyzerAcquire(t, m) ==
  /\ impl = "array"
  /\ LET r == AnalyzerAcquireEffect(t, m)
     IN  /\ thread_vc_' = r.C
         /\ lock_vc_' = r.L
  /\ Observe(Event("acq", t, m, FALSE, t))
  /\ UNCHANGED <<impl, prog, read_vc_, write_vc_, variables_, locks_, handlerVars, sparseVars, concVars>>

AnalyzerRelease(t, m) ==
  /\ impl = "array"
  /\ thread_vc_[t][t] < MaxClock
  /\ LET r == AnalyzerReleaseEffect(t, m)
     IN  /\ thread_vc_' = r.C
         /\ lock_vc_' = r.L
  /\ Observe(Event("rel", t, m, FALSE, t))
  /\ UNCHANGED <<impl, prog, read_vc_, write_vc_, variables_, locks_, handlerVars, sparseVars, concVars>>


\* std::map::emplace(k, FixedVectorClock{}): inserts only when k is absent.
MapEmplace(mp, k) == IF k \in DOMAIN mp THEN mp ELSE MapPut(mp, k, FixedVectorClock)

\* Analyzer::Register(const Variable& x): variables_.push_back(x);
\* read_vc_.emplace(x, {}); write_vc_.emplace(x, {}).
AnalyzerRegisterVariable(x) ==
  /\ impl = "array"
  /\ Len(variables_) < MaxRegister
  /\ variables_' = Append(variables_, x)
  /\ read_vc_' = MapEmplace(read_vc_, x)
  /\ write_vc_' = MapEmplace(write_vc_, x)
  /\ Observe(Event("regv", 0, x, FALSE, 0))
  /\ UNCHANGED <<impl, prog, thread_vc_, lock_vc_, locks_, handlerVars, sparseVars, concVars>>

\* Analyzer::Register(const Lock& m): locks_.push_back(m);
\* lock_vc_.emplace(m, {}).
AnalyzerRegisterLock(m) ==
  /\ impl = "array"
  /\ Len(locks_) < MaxRegister
  /\ locks_' = Append(locks_, m)
  /\ lock_vc_' = MapEmplace(lock_vc_, m)
  /\ Observe(Event("regl", 0, m, FALSE, 0))
  /\ UNCHANGED <<impl, prog, thread_vc_, read_vc_, write_vc_, variables_, handlerVars, sparseVars, concVars>>

\* Analyzer::SetReadViolationHandler(f): on_read_violated_ = f, f a callable
\* or an empty std::function.
SetReadViolationHandler(f) ==
  /\ impl = "array"
  /\ on_read_violated_' = f
  /\ Observe(Event("setrd", 0, "-", FALSE, 0))
  /\ UNCHANGED <<impl, prog, thread_vc_, read_vc_, write_vc_, lock_vc_, variables_, locks_>>
  /\ UNCHANGED <<on_write_violated_, handler_seen, sparseVars, concVars>>

\* Analyzer::SetWriteViolationHandler(f): on_write_violated_ = f.
SetWriteViolationHandler(f) ==
  /\ impl = "array"
  /\ on_write_violated_' = f
  /\ Observe(Event("setwr", 0, "-", FALSE, 0))
  /\ UNCHANGED <<impl, prog, thread_vc_, read_vc_, write_vc_, lock_vc_, variables_, locks_>>
  /\ UNCHANGED <<on_read_violated_, handler_seen, sparseVars, concVars>>

\* ------------------------------------------------ sparse variant: clocks
\* VC<T>(): an empty map<THREADID, T>.
VC == <<>>

\* The value VC::operator[] yields for tid (0 for an entry it creates).
VCAt(vc, tid) == IF tid \in DOMAIN vc THEN vc[tid] ELSE 0

\* VC::operator[](tid) = v.
VCPut(vc, tid, v) == [i \in DOMAIN vc \cup {tid} |-> IF i = tid THEN v ELSE vc[i]]

\* VC::operator|= : for every entry (tid, v) of rhs, clocks_[tid] (created 0
\* when absent) is raised to v when it is smaller.
VCOr(lhs, rhs) ==
  [i \in DOMAIN lhs \cup DOMAIN rhs |->
     IF i \notin DOMAIN rhs THEN lhs[i]
     ELSE IF VCAt(lhs, i) < rhs[i] THEN rhs[i] ELSE VCAt(lhs, i)]

\* An operator<= that passes over the entries of lhs absent from rhs.
VCLe_SkipAbsent(lhs, rhs) ==
  IF \A i \in DOMAIN lhs \cap DOMAIN rhs : lhs[i] <= rhs[i] THEN "true" ELSE "false"

\* VC::operator<= walks the entries of lhs in key order.  An entry absent
\* from rhs with v > 0, or present with v > it->second, returns false; an
\* entry absent from rhs with v <= 0 dereferences rhs.clocks_.end(), which
\* is undefined behaviour ("ub").
VCLe(lhs, rhs) ==
  LET Bad(i) == \/ i \notin DOMAIN rhs /\ lhs[i] > 0
                \/ i \in DOMAIN rhs /\ lhs[i] > rhs[i]
      Undef(i) == i \notin DOMAIN rhs /\ ~(lhs[i] > 0)
      stop == {i \in DOMAIN lhs : Bad(i) \/ Undef(i)}
  IN  IF stop = {} THEN "true"
      ELSE LET first == CHOOSE i \in stop : \A j \in stop : i <= j
           IN  IF Bad(first) THEN "false" ELSE "ub"

\* ThreadVCMap::operator[](tid): m_[tid][tid] = 1 when tid has no clock yet.
ThreadVCMapAt(tv, tid) ==
  IF tid \in DOMAIN tv THEN tv
  ELSE [i \in DOMAIN tv \cup {tid} |-> IF i = tid THEN VCPut(VC, tid, 1) ELSE tv[i]]

\* map<ADDRINT, VC<int>>::operator[]: the entry, created empty when absent.
AddrAt(mp, a) == IF a \in DOMAIN mp THEN mp[a] ELSE VC

\* ---------------------------------------- sparse variant: analysis routines
\* Read(tid, mem_addr): read_vc[mem_addr][tid] = thread_vc[tid][tid].
Read(tv, rv, tid, mem_addr) ==
  LET tv1 == ThreadVCMapAt(tv, tid)
  IN  [tv |-> tv1,
       rv |-> MapPut(rv, mem_addr, VCPut(AddrAt(rv, mem_addr), tid, VCAt(tv1[tid], tid)))]

\* Write that records one more than thread_vc[tid][tid].
Write_Ahead(tv, wv, tid, mem_addr) ==
  LET tv1 == ThreadVCMapAt(tv, tid)
  IN  [tv |-> tv1,
       wv |-> MapPut(wv, mem_addr,
                     VCPut(AddrAt(wv, mem_addr), tid, VCAt(tv1[tid], tid) + 1))]

\* Write(tid, mem_addr): write_vc[mem_addr][tid] = thread_vc[tid][tid].
Write(tv, wv, tid, mem_addr) ==
  LET tv1 == ThreadVCMapAt(tv, tid)
  IN  [tv |-> tv1,
       wv |-> MapPut(wv, mem_addr, VCPut(AddrAt(wv, mem_addr), tid, VCAt(tv1[tid], tid)))]

\* Aquire that assigns lock_vc[lock_addr] to thread_vc[tid] instead of
\* merging it.
Aquire_Assign(tv, lv, tid, lock_addr) ==
  LET tv1 == ThreadVCMapAt(tv, tid)
  IN  [tv |-> [tv1 EXCEPT ![tid] = AddrAt(lv, lock_addr)],
       lv |-> MapPut(lv, lock_addr, AddrAt(lv, lock_addr))]

\* Aquire(tid, lock_addr): thread_vc[tid] |= lock_vc[lock_addr].
Aquire(tv, lv, tid, lock_addr) ==
  LET tv1 == ThreadVCMapAt(tv, tid)
  IN  [tv |-> [tv1 EXCEPT ![tid] = VCOr(@, AddrAt(lv, lock_addr))],
       lv |-> MapPut(lv, lock_addr, AddrAt(lv, lock_addr))]

\* Release that stores the incremented clock in lock_vc[lock_addr] and
\* leaves thread_vc[tid] as it was.
Release_CopyAhead(tv, lv, tid, lock_addr) ==
  LET tv1 == ThreadVCMapAt(tv, tid)
  IN  [lv |-> MapPut(lv, lock_addr, VCPut(tv1[tid], tid, VCAt(tv1[tid], tid) + 1)),
       tv |-> tv1]

\* Release(tid, lock_addr): lock_vc[lock_addr] = thread_vc[tid];
\* ++thread_vc[tid][tid].
Release(tv, lv, tid, lock_addr) ==
  LET tv1 == ThreadVCMapAt(tv, tid)
  IN  [lv |-> MapPut(lv, lock_addr, tv1[tid]),
       tv |-> [tv1 EXCEPT ![tid] = VCPut(@, tid, VCAt(@, tid) + 1)]]

\* NoRaceForWrite that consults read_vc[mem_addr] only.
NoRaceForWrite_ReadsOnly(tv, rv, wv, tid, mem_addr) ==
  VCLe(AddrAt(rv, mem_addr), tv[tid])

\* NoRaceForWrite(tid, mem_addr): read_vc[mem_addr] <= thread_vc[tid] &&
\* write_vc[mem_addr] <= thread_vc[tid]; "true", "false" or "ub".
NoRaceForWrite(tv, rv, wv, tid, mem_addr) ==
  LET r == VCLe(AddrAt(rv, mem_addr), tv[tid])
  IN  IF r = "true" THEN VCLe(AddrAt(wv, mem_addr), tv[tid]) ELSE r

\* NoRaceForRead(tid, mem_addr): write_vc[mem_addr] <= thread_vc[tid].
NoRaceForRead(tv, wv, tid, mem_addr) == VCLe(AddrAt(wv, mem_addr), tv[tid])

\* The ids Fork may reach: those of Threads, or MaxFork of them in the
\* behaviours that follow the assigned ids.
ForkLimit == IF "ids" \in track THEN MaxFork ELSE NThread - 1
\* The value a thread's own clock may reach through Fork and Join; one more
\* in the behaviours that follow the assigned ids, which deliver no other
\* event.
ClockLimit == IF "ids" \in track THEN MaxClock + 1 ELSE MaxClock

\* Fork that gives a thread object that is already bound its old id again.
Fork_ReuseId(tv, tti, lid, tid, thread_obj) ==
  LET id == IF thread_obj \in DOMAIN tti THEN tti[thread_obj] ELSE lid + 1
      tv1 == ThreadVCMapAt(ThreadVCMapAt(tv, id), tid)
      tv2 == [tv1 EXCEPT ![id] = VCOr(@, tv1[tid])]
  IN  [lid |-> IF id > lid THEN id ELSE lid,
       tti |-> MapPut(tti, thread_obj, id),
       tv |-> [tv2 EXCEPT ![tid] = VCPut(@, tid, VCAt(@, tid) + 1)]]

Fork_NoIncrement(tv, tti, lid, tid, thread_obj) ==
  LET id == lid + 1
      tv1 == ThreadVCMapAt(ThreadVCMapAt(tv, id), tid)
  IN  [lid |-> id,
       tti |-> MapPut(tti, thread_obj, id),
       tv |-> [tv1 EXCEPT ![id] = VCOr(@, tv1[tid])]]

\* Fork(tid, thread_obj): ++last_id; thread_to_id[thread_obj] = last_id;
\* thread_vc[last_id] |= thread_vc[tid]; ++thread_vc[tid][tid].
Fork(tv, tti, lid, tid, thread_obj) ==
  LET id == lid + 1
      tv1 == ThreadVCMapAt(ThreadVCMapAt(tv, id), tid)
      tv2 == [tv1 EXCEPT ![id] = VCOr(@, tv1[tid])]
  IN  [lid |-> id,
       tti |-> MapPut(tti, thread_obj, id),
       tv |-> [tv2 EXCEPT ![tid] = VCPut(@, tid, VCAt(@, tid) + 1)]]

\* Join that does not merge thread_vc[join_id] into thread_vc[tid].
Join_NoMerge(tv, tti, tid, thread_obj) ==
  LET tti1 == IF thread_obj \in DOMAIN tti THEN tti ELSE MapPut(tti, thread_obj, 0)
      join_id == tti1[thread_obj]
      tv1 == ThreadVCMapAt(ThreadVCMapAt(tv, tid), join_id)
  IN  [join_id |-> join_id,
       tti |-> tti1,
       tv |-> [tv1 EXCEPT ![join_id] = VCPut(@, join_id, VCAt(@, join_id) + 1)]]

\* Join(tid, thread_obj): join_id = thread_to_id[thread_obj] (operator[]
\* inserts 0 for an unknown thread_obj); thread_vc[tid] |= thread_vc[join_id];
\* ++thread_vc[join_id][join_id].
Join(tv, tti, tid, thread_obj) ==
  LET tti1 == IF thread_obj \in DOMAIN tti THEN tti ELSE MapPut(tti, thread_obj, 0)
      join_id == tti1[thread_obj]
      tv1 == ThreadVCMapAt(ThreadVCMapAt(tv, tid), join_id)
      tv2 == [tv1 EXCEPT ![tid] = VCOr(@, tv1[join_id])]
  IN  [join_id |-> join_id,
       tti |-> tti1,
       tv |-> [tv2 EXCEPT ![join_id] = VCPut(@, join_id, VCAt(@, join_id) + 1)]]

\* The verdicts a comparison outcome allows: undefined behaviour may report
\* or not.
Verdicts(norace) == IF norace = "ub" THEN BOOLEAN ELSE {norace = "false"}

\* --------------------------------------------------- sparse variant: steps
\* CheckOverflow(ins_addr, mem_addr, is_write) on thread tid: nothing for an
\* address outside the watch set; otherwise Write/Read, then the race check.
CheckOverflow(tid, mem_addr, is_write) ==
  /\ impl = "sparse"
  /\ mem_addr \in DOMAIN read_vc
  /\ IF is_write
     THEN LET w == Write(thread_vc, write_vc, tid, mem_addr)
          IN  /\ thread_vc' = w.tv
              /\ write_vc' = w.wv
              /\ read_vc' = read_vc
              /\ \E v \in Verdicts(NoRaceForWrite(w.tv, read_vc, w.wv, tid, mem_addr)) :
                   Observe(Event("wr", tid, mem_addr, v, tid))
     ELSE LET r == Read(thread_vc, read_vc, tid, mem_addr)
          IN  /\ thread_vc' = r.tv
              /\ read_vc' = r.rv
              /\ write_vc' = write_vc
              /\ \E v \in Verdicts(NoRaceForRead(r.tv, write_vc, tid, mem_addr)) :
                   Observe(Event("rd", tid, mem_addr, v, tid))
  /\ UNCHANGED <<impl, prog, arrayVars, lock_vc, thread_to_id, last_id, concVars>>

\* MutexLockWrapper: after the traced lock call, Aquire for a watched mutex.
MutexLockWrapper(tid, m) ==
  /\ impl = "sparse"
  /\ m \in DOMAIN lock_vc
  /\ LET a == Aquire(thread_vc, lock_vc, tid, m)
     IN  /\ thread_vc' = a.tv
         /\ lock_vc' = a.lv
  /\ Observe(Event("acq", tid, m, FALSE, tid))
  /\ UNCHANGED <<impl, prog, arrayVars, read_vc, write_vc, thread_to_id, last_id, concVars>>

\* MutexUnlockWrapper: Release for a watched mutex, then the traced unlock.
MutexUnlockWrapper(tid, m) ==
  /\ impl = "sparse"
  /\ m \in DOMAIN lock_vc
  /\ VCAt(ThreadVCMapAt(thread_vc, tid)[tid], tid) < MaxClock
  /\ LET r == Release(thread_vc, lock_vc, tid, m)
     IN  /\ thread_vc' = r.tv
         /\ lock_vc' = r.lv
  /\ Observe(Event("rel", tid, m, FALSE, tid))
  /\ UNCHANGED <<impl, prog, arrayVars, read_vc, write_vc, thread_to_id, last_id, concVars>>

\* ThreadCtorWrapper: Fork, then the traced std::thread constructor.
ThreadCtorWrapper(tid, t) ==
  /\ impl = "sparse"
  /\ last_id < ForkLimit
  /\ VCAt(ThreadVCMapAt(thread_vc, tid)[tid], tid) < MaxClock
  /\ LET f == Fork(thread_vc, thread_to_id, last_id, tid, t)
     IN  /\ thread_vc' = f.tv
         /\ thread_to_id' = f.tti
         /\ last_id' = f.lid
         /\ Observe(Event("fork", tid, t, FALSE, f.lid))
  /\ UNCHANGED <<impl, prog, arrayVars, read_vc, write_vc, lock_vc, concVars>>

\* ThreadJoinWrapper: the traced std::thread::join, then Join.
ThreadJoinWrapper(tid, t) ==
  /\ impl = "sparse"
  /\ LET j == Join(thread_vc, thread_to_id, tid, t)
     IN  /\ VCAt(ThreadVCMapAt(thread_vc, j.join_id)[j.join_id], j.join_id) < MaxClock
         /\ thread_vc' = j.tv
         /\ thread_to_id' = j.tti
         /\ Observe(Event("join", tid, t, FALSE, j.join_id))
  /\ UNCHANGED <<impl, prog, arrayVars, read_vc, write_vc, lock_vc, last_id, concVars>>

\* A CheckOverflow without the watch-set guard.
CheckOverflowUnwatched_NoGuard(tid, mem_addr, is_write) ==
  /\ impl = "sparse"
  /\ mem_addr \notin DOMAIN read_vc
  /\ IF is_write
     THEN LET w == Write(thread_vc, write_vc, tid, mem_addr)
          IN  thread_vc' = w.tv /\ write_vc' = w.wv /\ read_vc' = read_vc
     ELSE LET r == Read(thread_vc, read_vc, tid, mem_addr)
          IN  thread_vc' = r.tv /\ read_vc' = r.rv /\ write_vc' = write_vc
  /\ Observe(Event(IF is_write THEN "wr" ELSE "rd", tid, mem_addr, FALSE, tid))
  /\ UNCHANGED <<impl, prog, arrayVars, lock_vc, thread_to_id, last_id, concVars>>

\* CheckOverflow on an address outside the watch set:
\* if (read_vc.count(mem_addr) == 0) return.
CheckOverflowUnwatched(tid, mem_addr, is_write) ==
  /\ impl = "sparse"
  /\ mem_addr \notin DOMAIN read_vc
  /\ Observe(Event(IF is_write THEN "wr" ELSE "rd", tid, mem_addr, FALSE, tid))
  /\ UNCHANGED <<impl, prog, arrayVars, sparseVars, concVars>>

\* MutexLockWrapper on a mutex outside the watch set: the traced lock call
\* only.
MutexLockWrapperUnwatched(tid, m) ==
  /\ impl = "sparse"
  /\ m \notin DOMAIN lock_vc
  /\ Observe(Event("acq", tid, m, FALSE, tid))
  /\ UNCHANGED <<impl, prog, arrayVars, sparseVars, concVars>>

\* MutexUnlockWrapper on a mutex outside the watch set: the traced unlock
\* call only.
MutexUnlockWrapperUnwatched(tid, m) ==
  /\ impl = "sparse"
  /\ m \notin DOMAIN lock_vc
  /\ Observe(Event("rel", tid, m, FALSE, tid))
  /\ UNCHANGED <<impl, prog, arrayVars, sparseVars, concVars>>

\* ------------------------------------- sparse variant: steps inside a routine
\* The analysis routines run on the traced program's own threads.  Below,
\* each routine is cut where a thread can wait or where another thread can
\* run in between: at PIN_GetLock(&lock), at the LockGuard on vc_lock, at
\* the call of the traced function.
sparseClocks == <<thread_vc, read_vc, write_vc, lock_vc, thread_to_id, last_id>>

\* CheckOverflow: return for an unwatched address; PIN_GetLock(&lock, tid).
CheckOverflowGetLock(tid, mem_addr, is_write) ==
  /\ impl = "sparse" /\ pc[tid] = Idle
  /\ mem_addr \in DOMAIN read_vc
  /\ lock = NoThread
  /\ lock' = tid
  /\ pc' = [pc EXCEPT ![tid] = At("co_lock", mem_addr, is_write)]
  /\ UNCHANGED <<impl, prog, arrayVars, sparseVars, vc_lock, mtx, obsVars>>

\* Read / Write: LockGuard l{vc_lock}.
CheckOverflowGuard(tid) ==
  /\ pc[tid].at = "co_lock"
  /\ vc_lock = NoThread
  /\ vc_lock' = tid
  /\ pc' = [pc EXCEPT ![tid].at = "co_vc"]
  /\ UNCHANGED <<impl, prog, arrayVars, sparseVars, lock, mtx, obsVars>>

\* A Read / Write whose LockGuard is not released on return.
CheckOverflowUpdate_KeepGuard(tid) ==
  /\ pc[tid].at = "co_vc"
  /\ IF pc[tid].w
     THEN LET w == Write(thread_vc, write_vc, tid, pc[tid].o)
          IN  thread_vc' = w.tv /\ write_vc' = w.wv /\ read_vc' = read_vc
     ELSE LET r == Read(thread_vc, read_vc, tid, pc[tid].o)
          IN  thread_vc' = r.tv /\ read_vc' = r.rv /\ write_vc' = write_vc
  /\ pc' = [pc EXCEPT ![tid].at = "co_check"]
  /\ UNCHANGED <<impl, prog, arrayVars, lock_vc, thread_to_id, last_id, lock, vc_lock, mtx, obsVars>>

\* Read / Write: the assignment, then ~LockGuard.
CheckOverflowUpdate(tid) ==
  /\ pc[tid].at = "co_vc"
  /\ IF pc[tid].w
     THEN LET w == Write(thread_vc, write_vc, tid, pc[tid].o)
          IN  thread_vc' = w.tv /\ write_vc' = w.wv /\ read_vc' = read_vc
     ELSE LET r == Read(thread_vc, read_vc, tid, pc[tid].o)
          IN  thread_vc' = r.tv /\ read_vc' = r.rv /\ write_vc' = write_vc
  /\ vc_lock' = NoThread
  /\ pc' = [pc EXCEPT ![tid].at = "co_check"]
  /\ UNCHANGED <<impl, prog, arrayVars, lock_vc, thread_to_id, last_id, lock, mtx, obsVars>>

\* CheckOverflow: NoRaceForWrite / NoRaceForRead, the report,
\* PIN_ReleaseLock(&lock).  The comparison takes no vc_lock: while another
\* thread is inside a routine that holds it, the reads of thread_vc race
\* with that routine's writes and the outcome is undefined.
CheckOverflowCheck(tid) ==
  /\ pc[tid].at = "co_check"
  /\ LET norace == IF vc_lock # NoThread THEN "ub"
                   ELSE IF pc[tid].w
                        THEN NoRaceForWrite(thread_vc, read_vc, write_vc, tid, pc[tid].o)
                        ELSE NoRaceForRead(thread_vc, write_vc, tid, pc[tid].o)
     IN  \E v \in Verdicts(norace) :
           Observe(Event(IF pc[tid].w THEN "wr" ELSE "rd", tid, pc[tid].o, v, tid))
  /\ lock' = NoThread
  /\ pc' = [pc EXCEPT ![tid] = Idle]
  /\ UNCHANGED <<impl, prog, arrayVars, sparseVars, vc_lock, mtx>>

\* MutexLockWrapper: PIN_CallApplicationFunction(lock) returns, the thread
\* owning the traced mutex.
MutexLockCall(tid, m) ==
  /\ impl = "sparse" /\ pc[tid] = Idle
  /\ mtx[m] = NoThread
  /\ mtx' = [mtx EXCEPT ![m] = tid]
  /\ pc' = [pc EXCEPT ![tid] = IF m \in DOMAIN lock_vc THEN At("lw_app", m, FALSE) ELSE Idle]
  /\ UNCHANGED <<impl, prog, arrayVars, sparseVars, lock, vc_lock, obsVars>>

\* Aquire: LockGuard l{vc_lock}.
MutexLockGuard(tid) ==
  /\ pc[tid].at = "lw_app"
  /\ vc_lock = NoThread
  /\ vc_lock' = tid
  /\ pc' = [pc EXCEPT ![tid].at = "lw_vc"]
  /\ UNCHANGED <<impl, prog, arrayVars, sparseVars, lock, mtx, obsVars>>

\* Aquire: the merge, then ~LockGuard.
MutexLockAquire(tid) ==
  /\ pc[tid].at = "lw_vc"
  /\ LET a == Aquire(thread_vc, lock_vc, tid, pc[tid].o)
     IN  thread_vc' = a.tv /\ lock_vc' = a.lv
  /\ Observe(Event("acq", tid, pc[tid].o, FALSE, tid))
  /\ vc_lock' = NoThread
  /\ pc' = [pc EXCEPT ![tid] = Idle]
  /\ UNCHANGED <<impl, prog, arrayVars, read_vc, write_vc, thread_to_id, last_id, lock, mtx>>

\* A MutexUnlockWrapper that lets the traced unlock proceed before Release.
MutexUnlockGuard_UnlockFirst(tid, m) ==
  /\ impl = "sparse" /\ pc[tid] = Idle
  /\ mtx[m] = tid
  /\ m \in DOMAIN lock_vc
  /\ VCAt(ThreadVCMapAt(thread_vc, tid)[tid], tid) < MaxClock
  /\ vc_lock = NoThread
  /\ vc_lock' = tid
  /\ mtx' = [mtx EXCEPT ![m] = NoThread]
  /\ pc' = [pc EXCEPT ![tid] = At("uw_vc", m, FALSE)]
  /\ UNCHANGED <<impl, prog, arrayVars, sparseVars, lock, obsVars>>

\* MutexUnlockWrapper, called by the owner of the traced mutex: for a
\* watched mutex Release, LockGuard l{vc_lock}.
MutexUnlockGuard(tid, m) ==
  /\ impl = "sparse" /\ pc[tid] = Idle
  /\ mtx[m] = tid
  /\ m \in DOMAIN lock_vc
  /\ VCAt(ThreadVCMapAt(thread_vc, tid)[tid], tid) < MaxClock
  /\ vc_lock = NoThread
  /\ vc_lock' = tid
  /\ pc' = [pc EXCEPT ![tid] = At("uw_vc", m, FALSE)]
  /\ UNCHANGED <<impl, prog, arrayVars, sparseVars, lock, mtx, obsVars>>

\* Release: the copy and the increment, then ~LockGuard.
MutexUnlockRelease(tid) ==
  /\ pc[tid].at = "uw_vc"
  /\ LET r == Release(thread_vc, lock_vc, tid, pc[tid].o)
     IN  thread_vc' = r.tv /\ lock_vc' = r.lv
  /\ Observe(Event("rel", tid, pc[tid].o, FALSE, tid))
  /\ vc_lock' = NoThread
  /\ pc' = [pc EXCEPT ![tid].at = "uw_app"]
  /\ UNCHANGED <<impl, prog, arrayVars, read_vc, write_vc, thread_to_id, last_id, lock, mtx>>

\* MutexUnlockWrapper: PIN_CallApplicationFunction(unlock).
MutexUnlockCall(tid) ==
  /\ pc[tid].at = "uw_app"
  /\ mtx' = [mtx EXCEPT ![pc[tid].o] = NoThread]
  /\ pc' = [pc EXCEPT ![tid] = Idle]
  /\ UNCHANGED <<impl, prog, arrayVars, sparseVars, lock, vc_lock, obsVars>>

\* ThreadCtorWrapper: Fork, LockGuard l{vc_lock}.
ThreadCtorGuard(tid, t) ==
  /\ impl = "sparse" /\ pc[tid] = Idle
  /\ last_id < ForkLimit
  /\ VCAt(ThreadVCMapAt(thread_vc, tid)[tid], tid) < ClockLimit
  /\ vc_lock = NoThread
  /\ vc_lock' = tid
  /\ pc' = [pc EXCEPT ![tid] = At("fw_vc", t, FALSE)]
  /\ UNCHANGED <<impl, prog, arrayVars, sparseVars, lock, mtx, obsVars>>

\* Fork: the body, then ~LockGuard and the traced constructor.
ThreadCtorFork(tid) ==
  /\ pc[tid].at = "fw_vc"
  /\ LET f == Fork(thread_vc, thread_to_id, last_id, tid, pc[tid].o)
     IN  /\ thread_vc' = f.tv
         /\ thread_to_id' = f.tti
         /\ last_id' = f.lid
         /\ Observe(Event("fork", tid, pc[tid].o, FALSE, f.lid))
  /\ vc_lock' = NoThread
  /\ pc' = [pc EXCEPT ![tid] = Idle]
  /\ UNCHANGED <<impl, prog, arrayVars, read_vc, write_vc, lock_vc, lock, mtx>>

\* ThreadJoinWrapper: the traced join has returned; Join, LockGuard
\* l{vc_lock}.
ThreadJoinGuard(tid, t) ==
  /\ impl = "sparse" /\ pc[tid] = Idle
  /\ LET j == Join(thread_vc, thread_to_id, tid, t)
     IN  VCAt(ThreadVCMapAt(thread_vc, j.join_id)[j.join_id], j.join_id) < ClockLimit
  /\ vc_lock = NoThread
  /\ vc_lock' = tid
  /\ pc' = [pc EXCEPT ![tid] = At("jw_vc", t, FALSE)]
  /\ UNCHANGED <<impl, prog, arrayVars, sparseVars, lock, mtx, obsVars>>

\* Join: the body, then ~LockGuard.
ThreadJoinJoin(tid) ==
  /\ pc[tid].at = "jw_vc"
  /\ LET j == Join(thread_vc, thread_to_id, tid, pc[tid].o)
     IN  /\ thread_vc' = j.tv
         /\ thread_to_id' = j.tti
         /\ Observe(Event("join", tid, pc[tid].o, FALSE, j.join_id))
  /\ vc_lock' = NoThread
  /\ pc' = [pc EXCEPT ![tid] = Idle]
  /\ UNCHANGED <<impl, prog, arrayVars, read_vc, write_vc, lock_vc, last_id, lock, mtx>>

\* ------------------------------------------- the traced demo program
\* The program built with USE_LOCK: atomic<int> x{0}, mutex m, the two
\* threads running f and main, one step per statement.
NoOutput == 0 - 1
\* A thread that has not been constructed yet.
NotStarted == [at |-> "none", i |-> 0, t |-> 0]
ProgInit ==
  [x |-> 0, m |-> NoThread, f |-> [w \in Workers |-> NotStarted],
   main |-> "ctor1", out |-> NoOutput]

\* thread t1{f}, t2{f}: the thread starts at the loop of f with i = 0.
MainCtor(w) ==
  /\ impl = "demo"
  /\ prog.main = (IF w = 1 THEN "ctor1" ELSE "ctor2")
  /\ prog' = [prog EXCEPT !.f[w].at = "lock",
                          !.main = IF w = 1 THEN "ctor2" ELSE "join1"]
  /\ UNCHANGED <<impl, arrayVars, sparseVars, concVars, obsVars>>

\* An f that enters the loop body without m.lock().
FLock_NoMutex(w) ==
  /\ impl = "demo"
  /\ prog.f[w].at = "lock"
  /\ prog' = [prog EXCEPT !.f[w].at = "load"]
  /\ UNCHANGED <<impl, arrayVars, sparseVars, concVars, obsVars>>

\* m.lock(): returns once m is free.
FLock(w) ==
  /\ impl = "demo"
  /\ prog.f[w].at = "lock"
  /\ prog.m = NoThread
  /\ prog' = [prog EXCEPT !.m = w, !.f[w].at = "load"]
  /\ UNCHANGED <<impl, arrayVars, sparseVars, concVars, obsVars>>

\* int t = x.load().
FLoad(w) ==
  /\ impl = "demo"
  /\ prog.f[w].at = "load"
  /\ prog' = [prog EXCEPT !.f[w].t = prog.x, !.f[w].at = "sleep"]
  /\ UNCHANGED <<impl, arrayVars, sparseVars, concVars, obsVars>>

\* this_thread::sleep_for(chrono::milliseconds{10}).
FSleep(w) ==
  /\ impl = "demo"
  /\ prog.f[w].at = "sleep"
  /\ prog' = [prog EXCEPT !.f[w].at = "store"]
  /\ UNCHANGED <<impl, arrayVars, sparseVars, concVars, obsVars>>

\* x.store(t + 1).
FStore(w) ==
  /\ impl = "demo"
  /\ prog.f[w].at = "store"
  /\ prog' = [prog EXCEPT !.x = prog.f[w].t + 1, !.f[w].at = "unlock"]
  /\ UNCHANGED <<impl, arrayVars, sparseVars, concVars, obsVars>>

\* m.unlock(); ++i; the loop test i < kCount.
FUnlock(w) ==
  /\ impl = "demo"
  /\ prog.f[w].at = "unlock"
  /\ prog' = [prog EXCEPT !.m = NoThread,
                          !.f[w].i = @ + 1,
                          !.f[w].at = IF prog.f[w].i + 1 < kCount THEN "lock" ELSE "done"]
  /\ UNCHANGED <<impl, arrayVars, sparseVars, concVars, obsVars>>

\* t1.join(); t2.join(): returns once the thread has left f.
MainJoin(w) ==
  /\ impl = "demo"
  /\ prog.main = (IF w = 1 THEN "join1" ELSE "join2")
  /\ prog.f[w].at = "done"
  /\ prog' = [prog EXCEPT !.main = IF w = 1 THEN "join2" ELSE "print"]
  /\ UNCHANGED <<impl, arrayVars, sparseVars, concVars, obsVars>>

\* cout << "x        = " << x.load().
MainPrint ==
  /\ impl = "demo"
  /\ prog.main = "print"
  /\ prog' = [prog EXCEPT !.out = prog.x, !.main = "done"]
  /\ UNCHANGED <<impl, arrayVars, sparseVars, concVars, obsVars>>

\* ------------------------------------------------------- specification
\* Analyzer<NThread> a; (main.cpp line 54) for the array variant; the globals
\* after LoadSymbolAddrFromTargetBinary has entered the watched symbols for
\* the sparse variant.
InitState(tr) ==
  /\ thread_vc_ = AnalyzerCtor
  /\ read_vc_ = <<>>
  /\ write_vc_ = <<>>
  /\ lock_vc_ = <<>>
  /\ variables_ = <<>>
  /\ locks_ = <<>>
  /\ on_read_violated_ = FALSE
  /\ on_write_violated_ = FALSE
  /\ handler_seen = NoCall
  /\ thread_vc = <<>>
  /\ read_vc = [x \in Variables |-> VC]
  /\ write_vc = [x \in Variables |-> VC]
  /\ lock_vc = [m \in Locks |-> VC]
  /\ thread_to_id = <<>>
  /\ last_id = 0
  /\ lock = NoThread
  /\ vc_lock = NoThread
  /\ pc = [t \in Threads |-> Idle]
  /\ mtx = [m \in Locks |-> NoThread]
  /\ prog = ProgInit
  /\ InitObs(tr)

InitWith(tr) == impl \in {"array", "sparse"} /\ InitState(tr)

Init == InitWith({})
InitPrev == InitWith({"prev"})
InitHB == InitWith({"hb"})
InitLocks == InitWith({"locks"})
InitScen == InitWith({"scen"})
InitReg == InitWith({"reg"})

Next ==
  \/ \E t \in Threads, x \in Variables : AnalyzerRead(t, x)
  \/ \E t \in Threads, x \in Variables : AnalyzerWrite(t, x)
  \/ \E t \in Threads, m \in Locks : AnalyzerAcquire(t, m)
  \/ \E t \in Threads, m \in Locks : AnalyzerRelease(t, m)
  \/ \E t \in Threads, x \in Variables, w \in BOOLEAN : CheckOverflow(t, x, w)
  \/ \E t \in Threads, m \in Locks : MutexLockWrapper(t, m)
  \/ \E t \in Threads, m \in Locks : MutexUnlockWrapper(t, m)
  \/ \E t \in Threads, h \in Handles : ThreadCtorWrapper(t, h)
  \/ \E t \in Threads, h \in Handles : ThreadJoinWrapper(t, h)

Spec == Init /\ [][Next]_vars
SpecPrev == InitPrev /\ [][Next]_vars
SpecHB == InitHB /\ [][Next]_vars
SpecLocks == InitLocks /\ [][Next]_vars
SpecScen == InitScen /\ [][Next]_vars

\* The events of Next and the registration calls of main.cpp lines 68-69.
NextReg ==
  \/ Next
  \/ \E x \in Variables : AnalyzerRegisterVariable(x)
  \/ \E m \in Locks : AnalyzerRegisterLock(m)

SpecReg == InitReg /\ [][NextReg]_vars

\* The events of Next and the handler settings of main.cpp lines 55-64.
InitHandlers == InitWith({"handlers"})

NextHandlers ==
  \/ Next
  \/ \E f \in BOOLEAN : SetReadViolationHandler(f)
  \/ \E f \in BOOLEAN : SetWriteViolationHandler(f)

SpecHandlers == InitHandlers /\ [][NextHandlers]_vars

\* The Pin tool on a traced program that also touches memory and mutexes
\* outside the watch set.
InitWatch == InitWith({"watch"})

NextWatch ==
  \/ Next
  \/ \E t \in Threads, a \in Variables \cup OtherVariables, w \in BOOLEAN :
       CheckOverflowUnwatched(t, a, w)
  \/ \E t \in Threads, m \in Locks \cup OtherLocks : MutexLockWrapperUnwatched(t, m)
  \/ \E t \in Threads, m \in Locks \cup OtherLocks : MutexUnlockWrapperUnwatched(t, m)

SpecWatch == InitWatch /\ [][NextWatch]_vars

\* The Pin tool with its routines running concurrently on the traced
\* program's threads.
InitConc == InitWith({"locks"}) /\ impl = "sparse"

NextConc ==
  \/ \E t \in Threads, x \in Variables, w \in BOOLEAN : CheckOverflowGetLock(t, x, w)
  \/ \E t \in Threads : CheckOverflowGuard(t)
  \/ \E t \in Threads : CheckOverflowUpdate(t)
  \/ \E t \in Threads : CheckOverflowCheck(t)
  \/ \E t \in Threads, m \in Locks : MutexLockCall(t, m)
  \/ \E t \in Threads : MutexLockGuard(t)
  \/ \E t \in Threads : MutexLockAquire(t)
  \/ \E t \in Threads, m \in Locks : MutexUnlockGuard(t, m)
  \/ \E t \in Threads : MutexUnlockRelease(t)
  \/ \E t \in Threads : MutexUnlockCall(t)
  \/ \E t \in Threads, h \in Handles : ThreadCtorGuard(t, h)
  \/ \E t \in Threads : ThreadCtorFork(t)
  \/ \E t \in Threads, h \in Handles : ThreadJoinGuard(t, h)
  \/ \E t \in Threads : ThreadJoinJoin(t)

SpecConc == InitConc /\ [][NextConc]_vars

\* The concurrent Pin tool under fair scheduling: a thread inside an
\* analysis routine keeps running, and PIN_GetLock on a lock that is released
\* again and again eventually succeeds.
InitLive == InitWith({"live"}) /\ impl = "sparse"

FairConc ==
  \A t \in Threads :
    /\ SF_vars(CheckOverflowGuard(t))
    /\ WF_vars(CheckOverflowUpdate(t))
    /\ WF_vars(CheckOverflowCheck(t))
    /\ SF_vars(MutexLockGuard(t))
    /\ WF_vars(MutexLockAquire(t))
    /\ WF_vars(MutexUnlockRelease(t))
    /\ WF_vars(MutexUnlockCall(t))
    /\ WF_vars(ThreadCtorFork(t))
    /\ WF_vars(ThreadJoinJoin(t))

SpecLive == InitLive /\ [][NextConc]_vars /\ FairConc

\* The Pin tool on a traced program that only constructs and joins
\* threads, with up to MaxFork Forks, the ids used being recorded.
InitIds == InitWith({"ids"}) /\ impl = "sparse"

NextIds ==
  \/ \E t \in Threads, h \in Handles : ThreadCtorGuard(t, h)
  \/ \E t \in Threads : ThreadCtorFork(t)
  \/ \E t \in Threads, h \in Handles : ThreadJoinGuard(t, h)
  \/ \E t \in Threads : ThreadJoinJoin(t)

SpecIds == InitIds /\ [][NextIds]_vars


\* ------------------------------------------- both variants, event by event
\* One Analyzer<NThread> object and the maps of the Pin tool receive the
\* same Read, Write, Acquire and Release events; last.viol is the array
\* variant's verdict and sviol the sparse variant's.
InitBoth == impl = "both" /\ InitState({"both"})

BothRead(t, x) ==
  /\ impl = "both"
  /\ LET a == AnalyzerReadEffect(t, x)
         r == Read(thread_vc, read_vc, t, x)
     IN  /\ read_vc_' = a.R
         /\ write_vc_' = a.W
         /\ thread_vc' = r.tv
         /\ read_vc' = r.rv
         /\ \E v \in Verdicts(NoRaceForRead(r.tv, write_vc, t, x)) :
              ObserveBoth(Event("rd", t, x, a.viol, t), v)
  /\ UNCHANGED <<impl, prog, thread_vc_, lock_vc_, variables_, locks_, handlerVars>>
  /\ UNCHANGED <<write_vc, lock_vc, thread_to_id, last_id, concVars>>

BothWrite(t, x) ==
  /\ impl = "both"
  /\ LET a == AnalyzerWriteEffect(t, x)
         w == Write(thread_vc, write_vc, t, x)
     IN  /\ read_vc_' = a.R
         /\ write_vc_' = a.W
         /\ thread_vc' = w.tv
         /\ write_vc' = w.wv
         /\ \E v \in Verdicts(NoRaceForWrite(w.tv, read_vc, w.wv, t, x)) :
              ObserveBoth(Event("wr", t, x, a.viol, t), v)
  /\ UNCHANGED <<impl, prog, thread_vc_, lock_vc_, variables_, locks_, handlerVars>>
  /\ UNCHANGED <<read_vc, lock_vc, thread_to_id, last_id, concVars>>

BothAcquire(t, m) ==
  /\ impl = "both"
  /\ LET a == AnalyzerAcquireEffect(t, m)
         q == Aquire(thread_vc, lock_vc, t, m)
     IN  /\ thread_vc_' = a.C
         /\ lock_vc_' = a.L
         /\ thread_vc' = q.tv
         /\ lock_vc' = q.lv
  /\ ObserveBoth(Event("acq", t, m, FALSE, t), FALSE)
  /\ UNCHANGED <<impl, prog, read_vc_, write_vc_, variables_, locks_, handlerVars>>
  /\ UNCHANGED <<read_vc, write_vc, thread_to_id, last_id, concVars>>

BothRelease(t, m) ==
  /\ impl = "both"
  /\ thread_vc_[t][t] < MaxClock
  /\ VCAt(ThreadVCMapAt(thread_vc, t)[t], t) < MaxClock
  /\ LET a == AnalyzerReleaseEffect(t, m)
         r == Release(thread_vc, lock_vc, t, m)
     IN  /\ thread_vc_' = a.C
         /\ lock_vc_' = a.L
         /\ thread_vc' = r.tv
         /\ lock_vc' = r.lv
  /\ ObserveBoth(Event("rel", t, m, FALSE, t), FALSE)
  /\ UNCHANGED <<impl, prog, read_vc_, write_vc_, variables_, locks_, handlerVars>>
  /\ UNCHANGED <<read_vc, write_vc, thread_to_id, last_id, concVars>>

NextBoth ==
  \/ \E t \in Threads, x \in Variables : BothRead(t, x)
  \/ \E t \in Threads, x \in Variables : BothWrite(t, x)
  \/ \E t \in Threads, m \in Locks : BothAcquire(t, m)
  \/ \E t \in Threads, m \in Locks : BothRelease(t, m)

SpecBoth == InitBoth /\ [][NextBoth]_vars

\* ------------------------------------------------ accesses to two variables
\* The events of Read, Write, Acquire and Release, the Analyzer object being
\* handed a second Variable besides x (the Pin tool watches x alone).
InitFrame == InitWith({"frame"})

NextFrame ==
  \/ \E t \in Threads, x \in Variables \cup OtherVariables : AnalyzerRead(t, x)
  \/ \E t \in Threads, x \in Variables \cup OtherVariables : AnalyzerWrite(t, x)
  \/ \E t \in Threads, m \in Locks : AnalyzerAcquire(t, m)
  \/ \E t \in Threads, m \in Locks : AnalyzerRelease(t, m)
  \/ \E t \in Threads, x \in Variables, w \in BOOLEAN : CheckOverflow(t, x, w)
  \/ \E t \in Threads, m \in Locks : MutexLockWrapper(t, m)
  \/ \E t \in Threads, m \in Locks : MutexUnlockWrapper(t, m)

SpecFrame == InitFrame /\ [][NextFrame]_vars

\* ------------------------------------------------ the demo program's runs
\* The demo program under a scheduler that lets every thread that can take a
\* step take one eventually.
InitDemo == impl = "demo" /\ InitState({"demo"})

FStep(w) == FLock(w) \/ FLoad(w) \/ FSleep(w) \/ FStore(w) \/ FUnlock(w)
MainStep == (\E w \in Workers : MainCtor(w) \/ MainJoin(w)) \/ MainPrint

NextDemo ==
  \/ \E w \in Workers : MainCtor(w)
  \/ \E w \in Workers : FLock(w)
  \/ \E w \in Workers : FLoad(w)
  \/ \E w \in Workers : FSleep(w)
  \/ \E w \in Workers : FStore(w)
  \/ \E w \in Workers : FUnlock(w)
  \/ \E w \in Workers : MainJoin(w)
  \/ MainPrint

SpecDemo ==
  InitDemo /\ [][NextDemo]_vars
    /\ WF_vars(MainStep) /\ \A w \in Workers : WF_vars(FStep(w))

\* --------------------------------------------------------------- queries
\* Component u of C[t], R[x], W[x], L[m] in the running implementation
\* (GetThreadVC, GetReadVC, GetWriteVC, GetLockVC of the array variant; the
\* maps of the sparse variant, an absent entry standing for time 0).
CComp(t, u) ==
  IF impl = "array" THEN thread_vc_[t][u]
  ELSE IF t \in DOMAIN thread_vc THEN VCAt(thread_vc[t], u) ELSE 0
RComp(x, u) ==
  IF impl = "array" THEN MapAt(read_vc_, x)[u] ELSE VCAt(AddrAt(read_vc, x), u)
WComp(x, u) ==
  IF impl = "array" THEN MapAt(write_vc_, x)[u] ELSE VCAt(AddrAt(write_vc, x), u)
LComp(m, u) ==
  IF impl = "array" THEN MapAt(lock_vc_, m)[u] ELSE VCAt(AddrAt(lock_vc, m), u)

\* Component u of C[t] with a thread the sparse variant has no clock for yet
\* standing at its initial clock (ThreadVCMap::operator[]: own component 1).
CInit(t, u) ==
  IF impl = "sparse" /\ t \notin DOMAIN thread_vc
  THEN (IF u = t THEN 1 ELSE 0)
  ELSE CComp(t, u)

Max(a, b) == IF a >= b THEN a ELSE b

IsAccess(e) == e.op \in {"rd", "wr"}
\* Thread u has made an access of kind k to x, and its latest one does not
\* happen-before the next event of thread t.
Unordered(k, u, x, t) == Access(k, u, x) \in hb[u] /\ Access(k, u, x) \notin hb[t]
\* The kinds of earlier access an access of kind op conflicts with.
Conflicting(op) == IF op = "wr" THEN {"rd", "wr"} ELSE {"wr"}

\* ---------------------------------------------------------------- claims
\* C1: soundness.  Whenever an access e2 = last of thread t to x follows a
\* conflicting access e1 of another thread u to x and no chain of program
\* order, release -> acquire on one lock, or fork/join edges leads from e1
\* to e2, a violation is reported at e2.
C1_Soundness ==
  ("hb" \in track /\ IsAccess(last)) =>
    ((\E u \in Threads \ {last.t}, k \in Conflicting(last.op) :
         Unordered(k, u, last.o, last.t))
       => last.viol)


\* C2: no false positive under a lock.  While some lock m has been held by
\* the accessing thread at every access of x so far, and the acquire /
\* release events on m have formed matching pairs that never overlapped, no
\* read or write of x reports a violation.
C2_NoViolationUnderLock ==
  ("locks" \in track /\ IsAccess(last) /\ guarded[last.o] \cap disc # {})
    => ~last.viol

\* C2 witness: a second thread writes x inside its critical section after
\* the first thread wrote it inside its own, and nothing is reported.
C2_Witness ==
  /\ "locks" \in track
  /\ sc.S2.on /\ Len(sc.S2.v) = 7
  /\ last.op = "wr" /\ last.t = 1
  /\ guarded[last.o] \cap disc # {}
  /\ WComp(last.o, 0) > 0
  /\ ~last.viol

\* C3: with no acquire, release, fork or join delivered so far, a write
\* reports exactly when another thread has read or written x before, and a
\* read exactly when another thread has written x before; along
\* rd(0,x) rd(1,x) wr(0,x) wr(1,x) the two reads report nothing and the two
\* writes report.
C3_Unsynchronised ==
  /\ ("hb" \in track /\ seen = {} /\ IsAccess(last)) =>
       (last.viol <=>
          \E u \in Threads \ {last.t}, k \in Conflicting(last.op) :
            Access(k, u, last.o) \in hb[u])
  /\ ("hb" \in track /\ sc.S1.on) =>
       \A i \in 1 .. Len(sc.S1.v) : i <= 4 => (sc.S1.v[i] <=> i >= 3)

\* C3 witness: the four events of the scenario have been delivered.
C3_Witness == "hb" \in track /\ sc.S1.on /\ Len(sc.S1.v) = 4 /\ last.viol

\* C4: fork/join edges order accesses.  With no acquire or release
\* delivered, an access whose conflicting earlier accesses by other threads
\* all reach it through fork and join edges reports nothing; and right
\* after Join(p, c) of a forked child c, every component of R[x] and W[x]
\* of a variable touched by p and c only is at most that of C[p].
C4_ForkJoinOrders ==
  ("hb" \in track /\ impl = "sparse" /\ seen \cap {"acq", "rel"} = {}) =>
    /\ (IsAccess(last) /\
        \A u \in Threads \ {last.t}, k \in Conflicting(last.op) :
          ~Unordered(k, u, last.o, last.t))
         => ~last.viol
    /\ (last.op = "join" /\ last.o \in DOMAIN forked /\ forked[last.o] = last.u) =>
         \A x \in Variables :
           (\A u \in Threads \ {last.t, last.u}, k \in {"rd", "wr"} :
              Access(k, u, x) \notin hb[u])
             => \A i \in Threads : /\ RComp(x, i) <= CComp(last.t, i)
                                   /\ WComp(x, i) <= CComp(last.t, i)

\* C4 witness: thread 0 forked thread 1, which wrote x; thread 0 joined it
\* and wrote x; nothing was reported.
C4_Witness ==
  /\ "hb" \in track /\ impl = "sparse"
  /\ sc.S3.on /\ sc.S3.v = <<FALSE, FALSE, FALSE, FALSE>>
  /\ Access("wr", 1, "x") \in hb[0]

\* C5: a missing join is detected.  After Fork(p -> c), once p and c have
\* each written x with no join, acquire, release or further fork since the
\* Fork, the second of the two writes reports a violation.
C5_MissingJoin ==
  ("scen" \in track /\ fk.on /\ fk.p # fk.c /\ last.op = "wr") =>
    ((/\ Len(fk.w[last.o]) = 2
      /\ fk.w[last.o][1] # fk.w[last.o][2]
      /\ fk.w[last.o][2] = last.t)
       => last.viol)

\* C5 witness: parent and child have both written x since the Fork and the
\* second write reported.
C5_Witness ==
  /\ "scen" \in track /\ fk.on /\ fk.p # fk.c /\ last.op = "wr"
  /\ Len(fk.w[last.o]) = 2
  /\ fk.w[last.o][1] # fk.w[last.o][2]
  /\ fk.w[last.o][2] = last.t
  /\ last.viol

\* C6: violations are not latched.  Once a write of x by thread t has
\* reported, every further write of x by t delivered before t acquires or
\* joins reports again; and the fifth event wr(0,x) after
\* rd(0,x) rd(1,x) wr(0,x) wr(1,x) reports.
C6_NotLatched ==
  [][("scen" \in track /\ last'.op = "wr") =>
       /\ (last'.o \in rep[last'.t] => last'.viol)
       /\ (sc'.S1.on /\ Len(sc'.S1.v) = 5 => sc'.S1.v[5])]_vars

\* C7 as stated: a read delivered immediately after a write of the same
\* variable by the same thread never reports.
C7_ReadAfterOwnWrite ==
  ("prev" \in track /\ prev.op = "wr" /\ last.op = "rd"
     /\ last.t = prev.t /\ last.o = prev.o)
    => ~last.viol

\* C7 amended: a read delivered immediately after a write of the same
\* variable by the same thread reports only if that write reported, and
\* exactly when some other thread's component of W[x] exceeds the reader's
\* clock.
C7_ReadAfterOwnWrite_Amended ==
  ("prev" \in track /\ prev.op = "wr" /\ last.op = "rd"
     /\ last.t = prev.t /\ last.o = prev.o)
    => /\ last.viol => prev.viol
       /\ last.viol <=> \E u \in Threads \ {last.t} :
                          WComp(last.o, u) > CComp(last.t, u)

\* C7 witness: a read right after the same thread's write of the same
\* variable, neither of them reporting, with another thread's write on
\* record.
C7_Witness ==
  /\ "prev" \in track /\ prev.op = "wr" /\ last.op = "rd"
  /\ last.t = prev.t /\ last.o = prev.o
  /\ ~last.viol /\ ~prev.viol
  /\ \E u \in Threads \ {last.t} : WComp(last.o, u) > 0

\* C8: every observed thread has its own clock component at least 1: every
\* thread of the array variant, and in the sparse variant every thread that
\* has a clock, the threads of the latest event among them.
C8_OwnClockAtLeastOne ==
  /\ impl = "array" => \A t \in Threads : thread_vc_[t][t] >= 1
  /\ impl = "sparse" =>
       /\ \A t \in DOMAIN thread_vc : t \in DOMAIN thread_vc[t] /\ thread_vc[t][t] >= 1
       /\ last.op # "init" => {last.t, last.u} \subseteq DOMAIN thread_vc

\* C8 witness: a thread's clock created by the sparse variant on first use
\* and advanced since, next to a thread still at 1.
C8_Witness ==
  /\ impl = "sparse"
  /\ \E t, u \in DOMAIN thread_vc : thread_vc[t][t] = 1 /\ thread_vc[u][u] > 1

\* C9: for every variable x and thread t, R[x][t] <= C[t][t] and
\* W[x][t] <= C[t][t].
C9_AccessClocksBounded ==
  \A x \in Variables, t \in Threads :
    RComp(x, t) <= CComp(t, t) /\ WComp(x, t) <= CComp(t, t)

\* C9 witness: a thread has read and written x and advanced its clock
\* since, so both inequalities are strict for it, while another thread's
\* write is recorded at its current time.
C9_Witness ==
  \E x \in Variables, t, u \in Threads :
    /\ 0 < RComp(x, t) /\ RComp(x, t) < CComp(t, t)
    /\ 0 < WComp(x, t) /\ WComp(x, t) < CComp(t, t)
    /\ WComp(x, u) = CComp(u, u)

C11_AcquireFrame ==
  [][\A t \in Threads, m \in Locks :
       (last'.op = "acq" /\ last'.t = t /\ last'.o = m) =>
         /\ ~last'.viol
         /\ \A i \in Threads :
              /\ CInit(t, i)' = Max(CInit(t, i), LComp(m, i))
              /\ \A u \in Threads \ {t} : CInit(u, i)' = CInit(u, i)
              /\ \A n \in Locks : LComp(n, i)' = LComp(n, i)
              /\ \A x \in Variables : /\ RComp(x, i)' = RComp(x, i)
                                      /\ WComp(x, i)' = WComp(x, i)]_vars

\* C11 witness: an acquire has just raised a component of the acquirer's
\* clock to that of the lock clock.
C11_Witness ==
  /\ last.op = "acq"
  /\ \E i \in Threads \ {last.t} :
       CComp(last.t, i) > 0 /\ CComp(last.t, i) = LComp(last.o, i)
  /\ CComp(last.t, last.t) > LComp(last.o, last.t)

\* C12: registration is idempotent.  Registering a variable or lock that is
\* already registered leaves R, W and L and the enumerations returned by
\* GetVariables and GetLocks as they were.
C12_RegisterIdempotent ==
  [][/\ \A x \in Variables :
          (last'.op = "regv" /\ last'.o = x /\ \E i \in DOMAIN variables_ : variables_[i] = x)
            => UNCHANGED <<thread_vc_, read_vc_, write_vc_, lock_vc_, variables_, locks_>>
     /\ \A m \in Locks :
          (last'.op = "regl" /\ last'.o = m /\ \E i \in DOMAIN locks_ : locks_[i] = m)
            => UNCHANGED <<thread_vc_, read_vc_, write_vc_, lock_vc_, variables_, locks_>>]_vars

\* C13: the clock update and the race check of one read or write event form
\* a single atomic step.  While a thread stands between its update and its
\* check, no other thread is inside a routine that changes clocks (it holds
\* vc_lock) and no routine of another thread changes any clock.
C13_UpdateCheckAtomic ==
  [][\A t \in Threads :
       pc[t].at = "co_check" =>
         /\ vc_lock = NoThread
         /\ pc'[t].at = "co_check" => UNCHANGED sparseClocks]_vars

\* C14: Acquire and Release events on a watched mutex are processed in the
\* traced program's order.  The Acquire event of a thread is processed only
\* while it owns the traced mutex; a thread that has obtained the mutex
\* finds the Release event of every earlier holder processed; and the
\* Acquire / Release events on m form matching pairs that never overlap.
C14_SyncOrderExtendsProgram ==
  \A m \in Locks :
    /\ m \in disc
    /\ held[m] # NoThread => mtx[m] = held[m]
    /\ \A t \in Threads :
         (pc[t].at \in {"lw_app", "lw_vc"} /\ pc[t].o = m) =>
           (mtx[m] = t /\ held[m] = NoThread)

\* C14 witness: a thread's Acquire event has just been processed after
\* another thread acquired and released the same mutex.
C14_Witness ==
  /\ last.op = "acq" /\ held[last.o] = last.t /\ mtx[last.o] = last.t
  /\ \E u \in Threads \ {last.t} :
       LComp(last.o, u) > 0 /\ CComp(last.t, u) = LComp(last.o, u)

\* C15: a Join whose handle no earlier Fork has bound to a thread id is
\* dropped: every thread clock (that of thread 0 included), every variable
\* clock and every lock clock keeps its value.
C15_UnboundJoinDropped ==
  [][(last'.op = "join" /\ last'.o \notin DOMAIN thread_to_id) =>
       \A i \in Threads :
         /\ \A t \in Threads : CInit(t, i)' = CInit(t, i)
         /\ \A x \in Variables : /\ RComp(x, i)' = RComp(x, i)
                                 /\ WComp(x, i)' = WComp(x, i)
         /\ \A m \in Locks : LComp(m, i)' = LComp(m, i)]_vars

\* C16: in the Pin tool, an access to an address that is not a watched
\* variable and a lock or unlock of a mutex that is not a watched lock
\* change no clock, create no clock entry and report nothing.
C16_UnwatchedIgnored ==
  [][/\ (last'.op \in {"rd", "wr"} /\ last'.o \notin DOMAIN read_vc) =>
          (UNCHANGED sparseClocks /\ ~last'.viol)
     /\ (last'.op \in {"acq", "rel"} /\ last'.o \notin DOMAIN lock_vc) =>
          (UNCHANGED sparseClocks /\ ~last'.viol)]_vars

\* C16 witness: a thread has just written an unwatched address while
\* another thread's write of the watched x is on record, and the writer
\* still has no clock.
C16_Witness ==
  /\ last.op = "wr" /\ last.o \in OtherVariables
  /\ last.t \notin DOMAIN thread_vc
  /\ \E u \in Threads \ {last.t} : WComp("x", u) > 0
  /\ DOMAIN read_vc = Variables /\ DOMAIN write_vc = Variables

\* C17: reporting never influences the analysis state.  Whatever the
\* handlers are set to and whether or not the event reports, a Read or Write
\* of the array variant changes exactly R[x][t] or W[x][t], to C[t][t]; a
\* handler is invoked only for a violation while it is set, and then with
\* the analyzer as it is after the event.
C17_ReportingNoInfluence ==
  [][\A t \in Threads, x \in Variables :
       (impl = "array" /\ last'.op \in {"rd", "wr"} /\ last'.t = t /\ last'.o = x) =>
         /\ thread_vc_' = thread_vc_ /\ lock_vc_' = lock_vc_
         /\ \A y \in Variables, i \in Threads :
              /\ RComp(y, i)' = IF last'.op = "rd" /\ y = x /\ i = t
                                THEN thread_vc_[t][t] ELSE RComp(y, i)
              /\ WComp(y, i)' = IF last'.op = "wr" /\ y = x /\ i = t
                                THEN thread_vc_[t][t] ELSE WComp(y, i)
         /\ IF last'.viol /\ (IF last'.op = "rd" THEN on_read_violated_
                                                ELSE on_write_violated_)
            THEN handler_seen' = HandlerCall(thread_vc_', read_vc_', write_vc_', lock_vc_')
            ELSE handler_seen' = handler_seen]_vars

\* C17 witness: a write has just reported to the write handler, the read
\* handler being unset, with the writes of both threads on record.
C17_Witness ==
  /\ impl = "array" /\ last.op = "wr" /\ last.viol
  /\ on_write_violated_ /\ ~on_read_violated_
  /\ handler_seen.on /\ handler_seen.W = write_vc_
  /\ \A t \in Threads : WComp(last.o, t) > 0

\* C18: thread ids are never reused.  Each Fork assigns an id strictly
\* greater than every id assigned by an earlier Fork, also after the
\* earlier child has been joined and with the Forks issued by different
\* threads whose routines interleave.
C18_IdsNeverReused ==
  /\ \A i, j \in DOMAIN ids :
       (i < j /\ ids[i][1] = "fork" /\ ids[j][1] = "fork") => ids[i][2] < ids[j][2]
  /\ \A i \in DOMAIN ids :
       ids[i][1] = "fork" => (0 < ids[i][2] /\ ids[i][2] <= last_id)
  /\ \A h \in DOMAIN thread_to_id : thread_to_id[h] <= last_id

\* C18 witness: a Fork has just been delivered after an earlier Fork and the
\* Join of that earlier child.
C18_Witness ==
  /\ "ids" \in track /\ last.op = "fork"
  /\ \E i, j, k \in DOMAIN ids :
       /\ i < j /\ j < k /\ k = Len(ids)
       /\ ids[i][1] = "fork" /\ ids[j] = <<"join", ids[i][2]>> /\ ids[k][1] = "fork"

\* C19: in both variants Release(t, m) increases C[t][t] by exactly 1,
\* leaves the other components of C[t] as they were, and leaves L[m] equal
\* to the new C[t] (L[m][t] = C[t][t] included); it needs no earlier
\* Acquire and changes no other thread clock, lock clock, R[x] or W[x].
C19_ReleaseIncrementThenCopy ==
  [][\A t \in Threads, m \in Locks :
       (last'.op = "rel" /\ last'.t = t /\ last'.o = m) =>
         \A i \in Threads :
           /\ CInit(t, i)' = (IF i = t THEN CInit(t, i) + 1 ELSE CInit(t, i))
           /\ LComp(m, i)' = CInit(t, i)'
           /\ \A u \in Threads \ {t} : CInit(u, i)' = CInit(u, i)
           /\ \A n \in Locks \ {m} : LComp(n, i)' = LComp(n, i)
           /\ \A x \in Variables : /\ RComp(x, i)' = RComp(x, i)
                                   /\ WComp(x, i)' = WComp(x, i)]_vars

\* C20: Fork(t, child) leaves the child id u with the clock the parent had
\* before the Fork except that C[u][u] = 1, and increases C[t][t] by exactly
\* 1 leaving the parent's other components as they were, also when a clock
\* for u existed before the Fork.
C20_ForkCopiesParent ==
  [][\A t, u \in Threads :
       (last'.op = "fork" /\ last'.t = t /\ last'.u = u) =>
         \A i \in Threads :
           /\ CComp(u, i)' = (IF i = u THEN 1 ELSE CInit(t, i))
           /\ t # u =>
                CComp(t, i)' = (IF i = t THEN CInit(t, i) + 1 ELSE CInit(t, i))]_vars

\* C21: Join(t, child), with u the id an earlier Fork bound to child, sets
\* C[t] to the pointwise maximum of C[t] and C[u], then increases C[u][u] by
\* exactly 1, and changes no other thread clock, no R[x], W[x] or L[m], no
\* binding and no id; a Join that directly follows the Fork of the same
\* child by the same thread leaves C[parent][child] >= 1.
C21_JoinMergesChild ==
  [][\A t, u \in Threads, h \in Handles :
       (/\ last'.op = "join" /\ last'.t = t /\ last'.o = h
        /\ h \in DOMAIN thread_to_id /\ thread_to_id[h] = u) =>
         /\ \A i \in Threads :
              /\ CComp(t, i)' = (IF t = u /\ i = u THEN CInit(t, i) + 1
                                 ELSE Max(CInit(t, i), CInit(u, i)))
              /\ t # u => CComp(u, i)' = (IF i = u THEN CInit(u, i) + 1
                                          ELSE CInit(u, i))
              /\ \A v \in Threads \ {t, u} : CInit(v, i)' = CInit(v, i)
              /\ \A m \in Locks : LComp(m, i)' = LComp(m, i)
              /\ \A x \in Variables : /\ RComp(x, i)' = RComp(x, i)
                                      /\ WComp(x, i)' = WComp(x, i)
         /\ UNCHANGED <<thread_to_id, last_id>>
         /\ (last.op = "fork" /\ last.t = t /\ last.o = h) => CComp(t, u)' >= 1]_vars

\* C21 witness: a thread has just joined the child it forked in the event
\* before, and its clock holds the child's time.
C21_Witness ==
  /\ "prev" \in track
  /\ prev.op = "fork" /\ last.op = "join"
  /\ last.t = prev.t /\ last.o = prev.o /\ last.u = prev.u /\ last.t # last.u
  /\ CComp(last.t, last.u) >= 1
  /\ CComp(last.u, last.u) = 2

\* C22: the verdict of Write(t, x) and of Read(t, x) is the one the clocks
\* held before the event give: a Write reports exactly when some component
\* of R[x] or of W[x] exceeds that of C[t], a Read exactly when some
\* component of W[x] does, although the code records the access in W[x][t]
\* or R[x][t] before it compares.
C22_VerdictFromPreState ==
  [][\A t \in Threads, x \in Variables :
       /\ (last'.op = "wr" /\ last'.t = t /\ last'.o = x) =>
            (last'.viol <=>
               \E i \in Threads : \/ RComp(x, i) > CInit(t, i)
                                  \/ WComp(x, i) > CInit(t, i))
       /\ (last'.op = "rd" /\ last'.t = t /\ last'.o = x) =>
            (last'.viol <=> \E i \in Threads : WComp(x, i) > CInit(t, i))]_vars

\* C22 witness: a thread that wrote x in the event before has just written
\* x again, at a later time than its first write of x, and the write is
\* reported because of another thread's access.
C22_Witness ==
  /\ "prev" \in track
  /\ prev.op = "wr" /\ last.op = "wr" /\ last.t = prev.t /\ last.o = prev.o
  /\ last.viol
  /\ WComp(last.o, last.t) = CComp(last.t, last.t)
  /\ \E u \in Threads \ {last.t} :
       RComp(last.o, u) > CComp(last.t, u) \/ WComp(last.o, u) > CComp(last.t, u)

\* C23: driven by the same Read, Write, Acquire and Release events, the
\* array variant and the sparse variant report a violation at exactly the
\* same events.
C23_VariantsAgree == "both" \in track => (last.viol <=> sviol)

\* The clocks the sparse variant holds, and the thread ids they mention.
StoredClocks ==
  {thread_vc[t] : t \in DOMAIN thread_vc}
    \cup {read_vc[x] : x \in DOMAIN read_vc}
    \cup {write_vc[x] : x \in DOMAIN write_vc}
    \cup {lock_vc[m] : m \in DOMAIN lock_vc}
StoredIds == Threads \cup UNION {DOMAIN c : c \in StoredClocks}

\* C24: in the sparse variant every stored component of every clock is at
\* least 1, and for all clocks a, b of a reachable state a <= b returns true
\* exactly when a[t] <= b[t] for every thread t (absent entries standing for
\* 0) without consulting an absent entry of b, and a |= b is the pointwise
\* maximum.
C24_SparseClockTotal ==
  impl = "sparse" =>
    /\ \A c \in StoredClocks : \A i \in DOMAIN c : c[i] >= 1
    /\ \A a, b \in StoredClocks :
         /\ VCLe(a, b) \in {"true", "false"}
         /\ VCLe(a, b) = "true" <=> \A t \in StoredIds : VCAt(a, t) <= VCAt(b, t)
         /\ \A t \in StoredIds : VCAt(VCOr(a, b), t) = Max(VCAt(a, t), VCAt(b, t))

\* C24 witness: a write has just been reported because W[x] or R[x] holds a
\* component for a thread the writer's clock has no entry for, while the
\* writer's clock holds an entry that clock lacks.
C24_Witness ==
  /\ impl = "sparse" /\ last.op = "wr" /\ last.viol
  /\ \E c \in {read_vc[last.o], write_vc[last.o]} :
       /\ DOMAIN c \ DOMAIN thread_vc[last.t] # {}
       /\ DOMAIN thread_vc[last.t] \ DOMAIN c # {}
  /\ \E m \in DOMAIN lock_vc :
       lock_vc[m] # VC /\ VCLe(lock_vc[m], thread_vc[last.t]) = "true"

\* C25: Read(t, x) changes R[x][t] and nothing else, Write(t, x) changes
\* W[x][t] and nothing else: the other components of that clock, the other
\* access clock of x, both clocks of every other variable, every thread
\* clock and every lock clock keep their values, reported or not.
C25_AccessFrame ==
  [][\A t \in Threads, x \in Variables \cup OtherVariables :
       (last'.op \in {"rd", "wr"} /\ last'.t = t /\ last'.o = x) =>
         \A i \in Threads :
           /\ (last'.op = "rd") =>
                /\ RComp(x, i)' = (IF i = t THEN CInit(t, t) ELSE RComp(x, i))
                /\ WComp(x, i)' = WComp(x, i)
           /\ (last'.op = "wr") =>
                /\ WComp(x, i)' = (IF i = t THEN CInit(t, t) ELSE WComp(x, i))
                /\ RComp(x, i)' = RComp(x, i)
           /\ \A y \in (Variables \cup OtherVariables) \ {x} :
                RComp(y, i)' = RComp(y, i) /\ WComp(y, i)' = WComp(y, i)
           /\ \A u \in Threads : CInit(u, i)' = CInit(u, i)
           /\ \A m \in Locks : LComp(m, i)' = LComp(m, i)]_vars

\* C25 witness: a reported write by a thread that has advanced its clock,
\* with a read of the same variable by the other thread, accesses of the
\* second variable and a release of m on record.
C25_Witness ==
  /\ "frame" \in track /\ last.op = "wr" /\ last.viol
  /\ CComp(last.t, last.t) > 1
  /\ \E u \in Threads \ {last.t} :
       /\ RComp(last.o, u) > 0
       /\ \E y \in (Variables \cup OtherVariables) \ {last.o} :
            RComp(y, u) > 0 /\ WComp(y, last.t) > 0
  /\ \E m \in Locks : LComp(m, last.t) > 0

\* C26: no clock records a later time for thread t than t's own clock:
\* C[u][t] <= C[t][t] and L[m][t] <= C[t][t] for all threads t, u and locks
\* m in every reachable state; and no component of a thread clock ever
\* decreases.
C26_OwnTimeIsLatest ==
  /\ [](\A t, u \in Threads :
          /\ CInit(u, t) <= CInit(t, t)
          /\ \A m \in Locks : LComp(m, t) <= CInit(t, t))
  /\ [][\A t, u \in Threads : CInit(u, t)' >= CInit(u, t)]_vars

\* C26 witness: an Acquire has just given a thread the time another thread
\* released the lock at, the releasing thread's own clock being at 2 or
\* more.
C26_Witness ==
  /\ last.op = "acq"
  /\ \E t \in Threads \ {last.t} :
       /\ CComp(t, t) >= 2
       /\ LComp(last.o, t) > 0
       /\ CComp(last.t, t) = LComp(last.o, t)

\* C27: the analysis introduces no deadlock.  A thread outside the analysis
\* routines (in the traced program, where it may wait for a mutex or a
\* join) holds neither lock nor vc_lock; lock is held only inside
\* CheckOverflow and vc_lock only inside a guarded routine body, so vc_lock
\* is only ever taken after lock and never the other way round; and under
\* fair scheduling every analysis routine a thread has entered returns.
C27_NoDeadlock ==
  /\ [](\A t \in Threads :
          /\ pc[t] = Idle => (lock # t /\ vc_lock # t)
          /\ lock = t => pc[t].at \in {"co_lock", "co_vc", "co_check"}
          /\ vc_lock = t => pc[t].at \in {"co_vc", "lw_vc", "uw_vc", "fw_vc", "jw_vc"})
  /\ \A t \in Threads : (pc[t] # Idle) ~> (pc[t] = Idle)

\* C27 witness: a thread inside CheckOverflow holds lock and waits for
\* vc_lock, which the other thread holds inside Aquire after the traced
\* lock call returned.
C27_Witness ==
  /\ "live" \in track
  /\ \E t \in Threads, u \in Threads :
       /\ t # u
       /\ pc[t].at = "co_lock" /\ lock = t
       /\ pc[u].at = "lw_vc" /\ vc_lock = u /\ mtx[pc[u].o] = u

\* C28: in the demo program built with USE_LOCK, under every interleaving
\* both threads leave f, main returns from both joins, and the x main then
\* reads is 2 * kCount; a load and the store that follows it by the same
\* thread happen while that thread owns m.
C28_NoLostIncrement ==
  /\ [](/\ prog.main = "done" =>
             (prog.out = 2 * kCount /\ \A w \in Workers : prog.f[w].at = "done")
        /\ \A w \in Workers :
             prog.f[w].at \in {"load", "sleep", "store", "unlock"} => prog.m = w)
  /\ <>(prog.main = "done")

\* C28 witness: main has printed x after both threads ran all their
\* iterations.
C28_Witness ==
  /\ impl = "demo" /\ prog.main = "done" /\ prog.out = 2 * kCount
  /\ \A w \in Workers : prog.f[w].at = "done" /\ prog.f[w].i = kCount

=============================================================================
